---- MODULE Spec2Model ----
(***************************************************************************)
(* Model of the analytics pipeline of life_exp_gdp_analysis.py:            *)
(* engineer_features, fit_outcome_regression, cluster_populations,         *)
(* simulate_life_expectancy_change and main.                               *)
(*                                                                         *)
(* Numbers.  Outcome values (life_expectancy), years and GDP are integers. *)
(* A float produced by np.log or by a prediction is a fixed-point integer  *)
(* counted in units of 1/Scale.  A float that may be non-finite (gdp_log)  *)
(* is a record [kind, v] with kind "finite", "-inf" or "nan".              *)
(*                                                                         *)
(* Tables.  A DataFrame is a sequence of rows; a row is a record whose     *)
(* DOMAIN is the set of column names of the table.                         *)
(*                                                                         *)
(* Library calls.  LinearRegression.fit is abstracted to "some coefficient *)
(* triple" (every property checked holds for all of them); KMeans is       *)
(* abstracted to "some labeling that is constant on equal points and       *)
(* populates min(4, number of distinct points) clusters"; sort_values with *)
(* its default kind="quicksort" is not a stable sort, so rows with equal   *)
(* keys may come out in any order.                                         *)
(***************************************************************************)
EXTENDS Integers, Sequences, FiniteSets, TLC

VARIABLES
    pc,               \* position of the running program
    df,               \* main's table `df` (aliased by the callee's parameter)
    df_at_call,       \* the table as it was handed to fit_outcome_regression
    model,            \* the fitted LinearRegression, NoModel before the fit
    fits,             \* number of model.fit calls so far
    underperformers,  \* the bottom-10 mean-residual table (lines 129-134)
    df_clusters,      \* the table returned by cluster_populations
    scenario,         \* the triple returned by simulate_life_expectancy_change
    err,              \* the exception that ended the run, "none" otherwise
    trace,            \* the stages executed so far, in order
    args              \* arguments of a direct call of the simulator

vars == <<pc, df, df_at_call, model, fits, underperformers, df_clusters,
          scenario, err, trace, args>>

----------------------------------------------------------------------------
(* Bounds of the model *)

MaxRows == 4
MaxRowsFE == 6
RankRows == 3
MaxLe == 4
MaxGdp == 2
MaxYearSpan == 2
MaxCoef == 1
MaxEntities == 11

(* Constants of the program *)

NQuantiles == 4
TestSizePct == 20
HeadN == 10
NClusters == 4
MainDeltaPct == 10

(* Resolution of the fixed-point floats, and ln 2 in that resolution *)
Scale == 10000
Ln2 == 6931

BaseYear == 2000

----------------------------------------------------------------------------
(* Values *)

None == [kind |-> "none"]
NoModel == [kind |-> "nomodel"]
NoTable == <<>>

Fin(x) == [kind |-> "finite", v |-> x]
NegInf == [kind |-> "-inf", v |-> 0]
NaN == [kind |-> "nan", v |-> 0]
IsFinite(f) == f.kind = "finite"

Ok(x) == [ok |-> TRUE, val |-> x, err |-> "none"]
Raise(e) == [ok |-> FALSE, val |-> None, err |-> e]

Min(S) == CHOOSE x \in S : \A y \in S : x <= y
MinOf(a, b) == IF a <= b THEN a ELSE b

Columns(t) == IF Len(t) = 0 THEN {} ELSE DOMAIN t[1]
Column(t, c) == [i \in 1..Len(t) |-> t[i][c]]
Range(s) == {s[i] : i \in 1..Len(s)}

(* df[c] = values : the new column replaces an old one of the same name *)
WithColumn(t, c, values) ==
    [i \in 1..Len(t) |-> (c :> values[i]) @@ t[i]]

----------------------------------------------------------------------------
(* np.log *)

LnSeries(num, den) ==
    LET y  == ((num - den) * Scale) \div (num + den)
        y2 == (y * y) \div Scale
        t3 == (y * y2) \div Scale
        t5 == (t3 * y2) \div Scale
        t7 == (t5 * y2) \div Scale
    IN  2 * (y + (t3 \div 3) + (t5 \div 5) + (t7 \div 7))

RECURSIVE LnReduce(_, _, _)
LnReduce(num, den, k) ==
    IF num >= 2 * den THEN LnReduce(num, 2 * den, k + 1)
    ELSE IF num < den THEN LnReduce(2 * num, den, k - 1)
    ELSE k * Ln2 + LnSeries(num, den)

(* np.log(num/den): -inf at 0 and nan below 0, with a RuntimeWarning only *)
Log(num, den) ==
    IF num < 0 THEN NaN
    ELSE IF num = 0 THEN NegInf
    ELSE Fin(LnReduce(num, den, 0))

----------------------------------------------------------------------------
(* pd.qcut(x, 4, labels=[1,2,3,4]) *)

SortedValues(s) == SortSeq(s, LAMBDA a, b : a < b)

(* The k-th of the 5 bin edges, times 4: Series.quantile(k/4) with linear *)
(* interpolation between the two nearest order statistics.               *)
QuantileEdge(sorted, k) ==
    LET n    == Len(sorted)
        pos  == (n - 1) * k
        lo   == pos \div NQuantiles
        r    == pos % NQuantiles
        hi   == MinOf(lo + 1, n - 1)
    IN  NQuantiles * sorted[lo + 1] + r * (sorted[hi + 1] - sorted[lo + 1])

QuantileEdges(s) ==
    LET sorted == SortedValues(s)
    IN  [k \in 1..(NQuantiles + 1) |-> QuantileEdge(sorted, k - 1)]

(* searchsorted(bins, x, side="left"), then include_lowest *)
BinOf(edges, x) ==
    IF NQuantiles * x = edges[1] THEN 1
    ELSE Cardinality({k \in DOMAIN edges : edges[k] < NQuantiles * x})

(* duplicates="raise": equal bin edges end the call with a ValueError *)
qcut(s) ==
    LET edges == QuantileEdges(s)
    IN  IF Cardinality(Range(edges)) < Len(edges)
        THEN Raise("ValueError")
        ELSE Ok([i \in 1..Len(s) |-> BinOf(edges, s[i])])

----------------------------------------------------------------------------
(* engineer_features *)

gdp_log_column(t) == [i \in 1..Len(t) |-> Log(t[i].gdp, 1)]

(* A variant that measures the years from the largest one *)
year_index_column_from_max(t) ==
    LET last == CHOOSE x \in Range(Column(t, "Year")) :
                    \A y \in Range(Column(t, "Year")) : y <= x
    IN  [i \in 1..Len(t) |-> t[i].Year - last]

year_index_column(t) ==
    LET first == Min(Range(Column(t, "Year")))
    IN  [i \in 1..Len(t) |-> t[i].Year - first]

engineer_features(t) ==
    LET t1    == WithColumn(t, "gdp_log", gdp_log_column(t))
        t2    == WithColumn(t1, "year_index", year_index_column(t1))
        tiers == qcut(Column(t2, "life_expectancy"))
    IN  IF tiers.ok
        THEN Ok(WithColumn(t2, "risk_tier", tiers.val))
        ELSE Raise(tiers.err)

----------------------------------------------------------------------------
(* LinearRegression *)

Models ==
    [kind : {"model"}, intercept : 0..MaxCoef, coef_log : 0..MaxCoef,
     coef_year : 0..MaxCoef]

(* X = df[["gdp_log", "year_index"]] *)
Features(t) ==
    [i \in 1..Len(t) |-> [gdp_log |-> t[i].gdp_log, year_index |-> t[i].year_index]]

AllFinite(X) == \A i \in 1..Len(X) : IsFinite(X[i].gdp_log)

(* A variant of predict that does not validate its input *)
predict_unchecked(m, X) ==
    Ok([i \in 1..Len(X) |->
            Scale * m.intercept + m.coef_log * X[i].gdp_log.v
            + Scale * m.coef_year * X[i].year_index])

(* model.predict(X): input validation rejects NaN and infinity with a *)
(* ValueError; otherwise the linear map, in units of 1/Scale          *)
predict(m, X) ==
    IF ~AllFinite(X) THEN Raise("ValueError")
    ELSE Ok([i \in 1..Len(X) |->
                Scale * m.intercept + m.coef_log * X[i].gdp_log.v
                + Scale * m.coef_year * X[i].year_index])

(* train_test_split(test_size=0.2): the sizes of the two partitions *)
n_test(n) == (n * TestSizePct + 99) \div 100
n_train(n) == n - n_test(n)

(* Lines 111-123: split, fit, and the two score calls.  Every row of X is *)
(* in one of the partitions, and fit and score validate their input, so a *)
(* non-finite feature anywhere ends the call.  The coefficients are any   *)
(* triple.                                                                *)
fit(t) ==
    IF n_train(Len(t)) = 0 THEN {Raise("ValueError")}
    ELSE IF ~AllFinite(Features(t)) THEN {Raise("ValueError")}
    ELSE {Ok(m) : m \in Models}

----------------------------------------------------------------------------
(* groupby(key)[col].mean(), sort_values(), head(n) *)

EntityNames == <<"A", "B", "C", "D", "E", "F", "G", "H", "I", "J", "K", "L", "M", "N">>
Entity(i) == EntityNames[i]
EntityRank(c) == CHOOSE i \in DOMAIN EntityNames : EntityNames[i] = c

RECURSIVE SumOver(_, _, _)
SumOver(t, col, I) ==
    IF I = {} THEN 0
    ELSE LET i == CHOOSE j \in I : TRUE
         IN  t[i][col] + SumOver(t, col, I \ {i})

(* One record per key: the mean is sum / count *)
groupby_mean(t, key, col) ==
    {[key |-> k,
      sum |-> SumOver(t, col, {i \in 1..Len(t) : t[i][key] = k}),
      count |-> Cardinality({i \in 1..Len(t) : t[i][key] = k})]
        : k \in Range(Column(t, key))}

MeanLeq(a, b) == a.sum * b.count <= b.sum * a.count
MeanEq(a, b) == a.sum * b.count = b.sum * a.count

(* A variant that sorts in descending order *)
RECURSIVE sort_values_descending(_)
sort_values_descending(G) ==
    IF G = {} THEN {<<>>}
    ELSE UNION {{<<g>> \o rest : rest \in sort_values_descending(G \ {g})}
                    : g \in {x \in G : \A y \in G : MeanLeq(y, x)}}

(* Series.sort_values() with the default kind="quicksort": ascending by  *)
(* value, rows of equal value in an order the sort does not determine    *)
RECURSIVE sort_values(_)
sort_values(G) ==
    IF G = {} THEN {<<>>}
    ELSE UNION {{<<g>> \o rest : rest \in sort_values(G \ {g})}
                    : g \in {x \in G : \A y \in G : MeanLeq(x, y)}}

head(s, n) == SubSeq(s, 1, MinOf(n, Len(s)))

----------------------------------------------------------------------------
(* fit_outcome_regression, lines 125-134: the residuals are written into *)
(* the table the caller passed, then ranked                              *)

residual_table(t, m) ==
    LET pred == predict(m, Features(t)).val
        t1   == WithColumn(t, "pred", pred)
    IN  WithColumn(t1, "residual",
                   [i \in 1..Len(t1) |-> Scale * t1[i].life_expectancy - t1[i].pred])

rank_gaps(t, m) ==
    LET t2 == residual_table(t, m)
    IN  {[df |-> t2, underperformers |-> head(o, HeadN)]
            : o \in sort_values(groupby_mean(t2, "Country", "residual"))}

----------------------------------------------------------------------------
(* cluster_populations *)

ClusterLabels == <<"High Risk", "Elevated Risk", "Moderate Risk", "Low Risk">>

(* The points KMeans sees.  StandardScaler maps each column by an        *)
(* increasing affine function (or to 0 when the column is constant), so  *)
(* two rows are the same scaled point exactly when they agree here.      *)
Point(row) == <<row.life_expectancy, row.gdp_log.v>>
Points(t) == {Point(t[i]) : i \in 1..Len(t)}

(* KMeans(n_clusters=4).fit_predict: ids 0..3, equal points share an id, *)
(* and min(4, distinct points) clusters are populated                    *)
KMeansLabelings(t) ==
    {f \in [Points(t) -> 0..(NClusters - 1)] :
        Cardinality({f[p] : p \in Points(t)}) = MinOf(NClusters, Cardinality(Points(t)))}

label_map(profile) ==
    [c \in {profile[j].key : j \in 1..MinOf(Len(profile), Len(ClusterLabels))} |->
        ClusterLabels[CHOOSE j \in 1..Len(profile) : profile[j].key = c]]

cluster_populations(t) ==
    IF ~AllFinite(Features(t)) THEN {Raise("ValueError")}
    ELSE IF Len(t) < NClusters THEN {Raise("ValueError")}
    ELSE UNION {
        LET t1 == WithColumn(t, "cluster", [i \in 1..Len(t) |-> f[Point(t[i])]])
        IN  {Ok(WithColumn(t1, "cluster_label",
                           [i \in 1..Len(t1) |-> label_map(profile)[t1[i].cluster]]))
                : profile \in sort_values(groupby_mean(t1, "cluster", "life_expectancy"))}
        : f \in KMeansLabelings(t)}

----------------------------------------------------------------------------
(* simulate_life_expectancy_change *)

simulate_life_expectancy_change(gdp_current, year_index, delta_gdp_pct, m) ==
    LET X_curr == <<[gdp_log |-> Log(gdp_current, 1), year_index |-> year_index]>>
        X_new  == <<[gdp_log |-> Log(gdp_current * (100 + delta_gdp_pct), 100),
                     year_index |-> year_index]>>
        y_curr == predict(m, X_curr)
        y_new  == predict(m, X_new)
    IN  IF ~y_curr.ok THEN Raise(y_curr.err)
        ELSE IF ~y_new.ok THEN Raise(y_new.err)
        ELSE Ok(<<y_curr.val[1], y_new.val[1], y_new.val[1] - y_curr.val[1]>>)

----------------------------------------------------------------------------
(* Input tables *)

Row(c, y, l, g) == [Country |-> c, Year |-> y, life_expectancy |-> l, gdp |-> g]

(* The tables load_data hands to main *)
MainTables ==
    {[i \in 1..n |-> Row(Entity(((i - 1) % 2) + 1), BaseYear + i - 1, i, g)]
        : n \in 1..MaxRows, g \in 0..MaxGdp}

(* Tables of n rows for engineer_features: any outcome values; any GDP,  *)
(* positive or not; any years                                            *)
FETablesLe(n) ==
    {[i \in 1..n |-> Row("A", BaseYear, le[i], 1)] : le \in [1..n -> 1..MaxLe]}
FETablesGdp(n) ==
    {[i \in 1..n |-> Row("A", BaseYear, i, g[i])] : g \in [1..n -> (-1)..MaxGdp]}
FETablesYear(n) ==
    {[i \in 1..n |-> Row("A", y[i], i, 1)]
        : y \in [1..n -> BaseYear..(BaseYear + MaxYearSpan)]}

(* Tables for fit_outcome_regression: n rows of two entities with any    *)
(* outcome values, and one row for each of n entities, two of which may  *)
(* share their outcome value                                             *)
RankTablesSmall(n) ==
    {[i \in 1..n |-> Row(Entity(c[i]), BaseYear + i - 1, le[i], i)]
        : c \in [1..n -> 1..2], le \in [1..n -> 1..MaxLe]}
Scramble(i) == ((i * 7) % 13) + 1
RankTablesWide(n) ==
    {[i \in 1..n |->
        Row(Entity(i), BaseYear, IF i = tie[2] THEN Scramble(tie[1]) ELSE Scramble(i), 1)]
        : tie \in {ab \in (1..n) \X (1..n) : ab[1] <= ab[2]}}

(* Tables of n rows for cluster_populations *)
ClusterTables(n) ==
    {[i \in 1..n |-> Row("A", BaseYear, le[i], g[i])]
        : le \in [1..n -> 1..MaxLe], g \in [1..n -> 1..MaxGdp]}

(* Arguments of simulate_life_expectancy_change *)
Pcts == {-200, -101, -100, -99, -50, 0, 10, 100}
SimArgs ==
    [gdp_current : 0..MaxGdp, year_index : 0..MaxYearSpan, delta_gdp_pct : Pcts,
     model : Models]

----------------------------------------------------------------------------
(* main *)

Start(p, t) ==
    /\ pc = p
    /\ df = t
    /\ df_at_call = NoTable
    /\ model = NoModel
    /\ fits = 0
    /\ underperformers = <<>>
    /\ df_clusters = NoTable
    /\ scenario = None
    /\ err = "none"
    /\ args = None

Init == \E t \in MainTables : Start("engineer", t) /\ trace = <<>>

(* df = engineer_features(df) *)
MainEngineer ==
    /\ pc = "engineer"
    /\ LET r == engineer_features(df)
       IN  IF r.ok
           THEN df' = r.val /\ pc' = "fit" /\ err' = err
           ELSE df' = df /\ pc' = "aborted" /\ err' = r.err
    /\ trace' = Append(trace, "engineer")
    /\ UNCHANGED <<df_at_call, model, fits, underperformers, df_clusters, scenario, args>>

(* model = fit_outcome_regression(df), lines 111-123 *)
MainFit ==
    /\ pc = "fit"
    /\ \E r \in fit(df) :
        IF r.ok
        THEN model' = r.val /\ fits' = fits + 1 /\ pc' = "rank" /\ err' = err
        ELSE model' = model /\ fits' = fits /\ pc' = "aborted" /\ err' = r.err
    /\ df_at_call' = df
    /\ trace' = Append(trace, "fit")
    /\ UNCHANGED <<df, underperformers, df_clusters, scenario, args>>

(* fit_outcome_regression, lines 125-147: df is the caller's table *)
MainRank ==
    /\ pc = "rank"
    /\ \E r \in rank_gaps(df, model) :
        /\ df' = r.df
        /\ underperformers' = r.underperformers
    /\ pc' = "cluster"
    /\ trace' = Append(trace, "rank")
    /\ UNCHANGED <<df_at_call, model, fits, df_clusters, scenario, err, args>>

(* A variant of the segmentation step that fits the model again *)
MainCluster_refits ==
    /\ pc = "cluster"
    /\ \E r \in cluster_populations(df) :
        IF r.ok
        THEN df_clusters' = r.val /\ pc' = "simulate" /\ err' = err
        ELSE df_clusters' = df_clusters /\ pc' = "aborted" /\ err' = r.err
    /\ \E r \in fit(df) : model' = IF r.ok THEN r.val ELSE model
    /\ fits' = fits + 1
    /\ trace' = Append(trace, "cluster")
    /\ UNCHANGED <<df, df_at_call, underperformers, scenario, args>>

(* df_clusters = cluster_populations(df) *)
MainCluster ==
    /\ pc = "cluster"
    /\ \E r \in cluster_populations(df) :
        IF r.ok
        THEN df_clusters' = r.val /\ pc' = "simulate" /\ err' = err
        ELSE df_clusters' = df_clusters /\ pc' = "aborted" /\ err' = r.err
    /\ trace' = Append(trace, "cluster")
    /\ UNCHANGED <<df, df_at_call, model, fits, underperformers, scenario, args>>

(* row = df_clusters.iloc[0]; simulate_life_expectancy_change(..., 10, model) *)
MainSimulate ==
    /\ pc = "simulate"
    /\ LET row == df_clusters[1]
           r   == simulate_life_expectancy_change(row.gdp, row.year_index,
                                                  MainDeltaPct, model)
       IN  IF r.ok
           THEN scenario' = r.val /\ pc' = "done" /\ err' = err
           ELSE scenario' = scenario /\ pc' = "aborted" /\ err' = r.err
    /\ trace' = Append(trace, "simulate")
    /\ UNCHANGED <<df, df_at_call, model, fits, underperformers, df_clusters, args>>

Next == MainEngineer \/ MainFit \/ MainRank \/ MainCluster \/ MainSimulate

Spec == Init /\ [][Next]_vars

----------------------------------------------------------------------------
(* The stages called on their own *)

InitFE ==
    /\ \/ \E n \in 1..MaxRowsFE : \E t \in FETablesLe(n) : Start("engineer", t)
       \/ \E n \in 1..MaxRows : \E t \in FETablesGdp(n) : Start("engineer", t)
       \/ \E n \in 1..MaxRows : \E t \in FETablesYear(n) : Start("engineer", t)
    /\ trace = <<>>
NextFE == MainEngineer
SpecFE == InitFE /\ [][NextFE]_vars

(* fit_outcome_regression is handed what engineer_features returned *)
Engineered(t, p) ==
    LET r == engineer_features(t) IN r.ok /\ Start(p, r.val)

InitRank ==
    /\ \/ \E n \in (HeadN - 1)..MaxEntities : \E t \in RankTablesWide(n) : Engineered(t, "fit")
       \/ \E n \in 2..RankRows : \E t \in RankTablesSmall(n) : Engineered(t, "fit")
    /\ trace = <<"engineer">>
NextRank == MainFit \/ MainRank
SpecRank == InitRank /\ [][NextRank]_vars

InitCluster ==
    /\ \E n \in 1..MaxRows : \E t \in ClusterTables(n) : Engineered(t, "cluster")
    /\ trace = <<>>
NextCluster == MainCluster
SpecCluster == InitCluster /\ [][NextCluster]_vars

InitSim ==
    /\ pc = "call_simulate"
    /\ df = NoTable
    /\ df_at_call = NoTable
    /\ model = NoModel
    /\ fits = 0
    /\ underperformers = <<>>
    /\ df_clusters = NoTable
    /\ scenario = None
    /\ err = "none"
    /\ trace = <<>>
    /\ args \in SimArgs

CallSimulate ==
    /\ pc = "call_simulate"
    /\ LET r == simulate_life_expectancy_change(args.gdp_current, args.year_index,
                                                args.delta_gdp_pct, args.model)
       IN  IF r.ok
           THEN scenario' = r.val /\ pc' = "returned" /\ err' = err
           ELSE scenario' = scenario /\ pc' = "raised" /\ err' = r.err
    /\ UNCHANGED <<df, df_at_call, model, fits, underperformers, df_clusters, trace, args>>

NextSim == CallSimulate
SpecSim == InitSim /\ [][NextSim]_vars

----------------------------------------------------------------------------
(* Properties *)

EngineerReturned == pc = "fit" /\ trace = <<"engineer">>
RegressionReturned == pc \in {"cluster", "simulate", "done"}
Entities(t) == Range(Column(t, "Country"))
Listed == {underperformers[j].key : j \in 1..Len(underperformers)}
LabelRank(l) == CHOOSE j \in DOMAIN ClusterLabels : ClusterLabels[j] = l

(* C1: fit_outcome_regression leaves the table it was given unchanged: *)
(* once it has returned, the caller's table has the columns and values *)
(* it had at the call, and the table cluster_populations works on has  *)
(* no pred and no residual column.                                     *)
RegressionLeavesTableUnchanged ==
    RegressionReturned =>
        /\ df = df_at_call
        /\ Columns(df) \cap {"pred", "residual"} = {}
        /\ Columns(df_clusters) \cap {"pred", "residual"} = {}

(* C2: with a current economic level > 0, the simulator ends in the     *)
(* error raised for a non-finite feature and returns no triple when the *)
(* percentage change is <= -100, and returns a triple without error     *)
(* when it is > -100.                                                   *)
SimulatorDomain ==
    (pc # "call_simulate" /\ args # None /\ args.gdp_current > 0) =>
        IF args.delta_gdp_pct <= -100
        THEN pc = "raised" /\ err = "ValueError" /\ scenario = None
        ELSE /\ pc = "returned" /\ err = "none"
             /\ Len(scenario) = 3
             /\ scenario[3] = scenario[2] - scenario[1]

SimulatorRejectsMinus100 ==
    /\ pc = "raised"
    /\ args.gdp_current > 0
    /\ args.delta_gdp_pct = -100
    /\ scenario = None

(* C3: engineer_features returns no table when some row has gdp <= 0;  *)
(* a returned table never holds a non-finite log for such a row.       *)
EngineerRejectsNonPositiveGdp ==
    EngineerReturned =>
        \A i \in 1..Len(df) : df[i].gdp > 0 /\ IsFinite(df[i].gdp_log)

(* C4: on a table with at least 4 distinct outcome values               *)
(* engineer_features succeeds, every tier 1..4 is used, and a lower     *)
(* tier never holds a larger outcome value than a higher tier.          *)
QuartilePartition ==
    (pc # "engineer" /\ Cardinality(Range(Column(df, "life_expectancy"))) >= NQuantiles) =>
        /\ pc = "fit"
        /\ Range(Column(df, "risk_tier")) = 1..NQuantiles
        /\ \A i, j \in 1..Len(df) :
              df[i].risk_tier < df[j].risk_tier
                  => df[i].life_expectancy <= df[j].life_expectancy

(* C5: the underperformer table has min(10, number of entities) rows,   *)
(* one per entity; each row holds the mean of all of the entity's        *)
(* residuals (outcome minus prediction); the rows are in non-decreasing *)
(* order of mean; every entity left out has a mean >= every listed one. *)
ExpectedResidual(row) ==
    Scale * row.life_expectancy
    - (Scale * model.intercept + model.coef_log * row.gdp_log.v
       + Scale * model.coef_year * row.year_index)

ExpectedMean(c) ==
    LET I == {i \in 1..Len(df) : df[i].Country = c}
        R == [i \in 1..Len(df) |-> [r |-> ExpectedResidual(df[i])]]
    IN  [key |-> c, sum |-> SumOver(R, "r", I), count |-> Cardinality(I)]

UnderperformersCorrect ==
    RegressionReturned =>
        /\ Len(underperformers) = MinOf(HeadN, Cardinality(Entities(df)))
        /\ \A j, k \in 1..Len(underperformers) :
              j # k => underperformers[j].key # underperformers[k].key
        /\ \A j \in 1..Len(underperformers) :
              /\ underperformers[j].key \in Entities(df)
              /\ underperformers[j] = ExpectedMean(underperformers[j].key)
        /\ \A j \in 1..(Len(underperformers) - 1) :
              MeanLeq(underperformers[j], underperformers[j + 1])
        /\ \A c \in Entities(df) \ Listed : \A j \in 1..Len(underperformers) :
              MeanLeq(underperformers[j], ExpectedMean(c))

UnderperformersCutOff ==
    /\ RegressionReturned
    /\ Cardinality(Entities(df)) > HeadN
    /\ Len(underperformers) = HeadN
    /\ \E j \in 1..(HeadN - 1) : ~MeanEq(underperformers[j], underperformers[j + 1])
    /\ underperformers[1].key # Entity(1)

(* C6: entities of equal mean residual are ranked in ascending order of *)
(* their identifier, in the list and across the bottom-10 cut-off.      *)
TiesBrokenByEntityId ==
    RegressionReturned =>
        /\ \A j \in 1..(Len(underperformers) - 1) :
              MeanEq(underperformers[j], underperformers[j + 1])
                  => EntityRank(underperformers[j].key)
                       < EntityRank(underperformers[j + 1].key)
        /\ \A c \in Entities(df) \ Listed : \A j \in 1..Len(underperformers) :
              MeanEq(underperformers[j], ExpectedMean(c))
                  => EntityRank(underperformers[j].key) < EntityRank(c)

(* C7: every observation carries one of the four labels, cluster ids    *)
(* and labels correspond one to one, and from High Risk to Low Risk the *)
(* cluster means of the outcome do not decrease, clusters of equal mean *)
(* being ordered by cluster id.                                         *)
ClusterMeans(t) == groupby_mean(t, "cluster", "life_expectancy")
LabelOf(t, c) == (CHOOSE i \in 1..Len(t) : t[i].cluster = c)

LabelsMonotonic ==
    pc = "simulate" =>
        /\ \A i \in 1..Len(df_clusters) :
              df_clusters[i].cluster_label \in Range(ClusterLabels)
        /\ \A i, j \in 1..Len(df_clusters) :
              (df_clusters[i].cluster = df_clusters[j].cluster)
                  <=> (df_clusters[i].cluster_label = df_clusters[j].cluster_label)
        /\ \A a, b \in ClusterMeans(df_clusters) :
              LET la == LabelRank(df_clusters[LabelOf(df_clusters, a.key)].cluster_label)
                  lb == LabelRank(df_clusters[LabelOf(df_clusters, b.key)].cluster_label)
              IN  la < lb => /\ MeanLeq(a, b)
                             /\ MeanEq(a, b) => a.key < b.key

(* C8: cluster_populations returns no table when the input has fewer    *)
(* than 4 observations or fewer than 4 distinct (outcome, log economic  *)
(* level) combinations; a returned table has 4 populated clusters.      *)
ClusterRejectsDegenerateInput ==
    /\ (pc # "cluster" /\ (Len(df) < NClusters \/ Cardinality(Points(df)) < NClusters))
          => pc = "aborted" /\ err = "ValueError" /\ df_clusters = NoTable
    /\ pc = "simulate"
          => Cardinality(Range(Column(df_clusters, "cluster"))) = NClusters

(* C9: in the table engineer_features returns every time index is the   *)
(* row's year minus the smallest year of the table: it is >= 0, it is 0 *)
(* on the rows of the smallest year, and two rows' time indices are in  *)
(* the order of their years.                                            *)
TimeIndexFromMinimum ==
    EngineerReturned =>
        /\ \A i \in 1..Len(df) :
              /\ df[i].year_index >= 0
              /\ (\A j \in 1..Len(df) : df[i].Year <= df[j].Year) => df[i].year_index = 0
              /\ \E j \in 1..Len(df) :
                    /\ \A k \in 1..Len(df) : df[j].Year <= df[k].Year
                    /\ df[i].year_index = df[i].Year - df[j].Year
        /\ \A i, j \in 1..Len(df) :
              (df[i].year_index <= df[j].year_index) <=> (df[i].Year <= df[j].Year)

TimeIndexShifted ==
    /\ EngineerReturned
    /\ Len(df) >= 3
    /\ df[1].year_index > 0
    /\ \E i, j \in 1..Len(df) : df[i].year_index > df[j].year_index /\ df[j].year_index > 0

(* C10: the stages run in the order engineer, fit, rank, cluster,       *)
(* simulate; the model is written once, by the fit, and never changes   *)
(* afterwards; the simulator's result is computed from that model.      *)
StageOrder == <<"engineer", "fit", "rank", "cluster", "simulate">>

FixedOrderSingleFit ==
    /\ [](/\ \E k \in 0..Len(StageOrder) : trace = SubSeq(StageOrder, 1, k)
          /\ fits <= 1
          /\ (fits = 0) <=> (model = NoModel)
          /\ (model # NoModel) => ("fit" \in Range(trace))
          /\ (pc = "done") =>
                scenario = simulate_life_expectancy_change(
                               df_clusters[1].gdp, df_clusters[1].year_index,
                               MainDeltaPct, model).val)
    /\ [][(model # NoModel) => (model' = model /\ fits' = fits)]_vars

PipelineCompleted ==
    /\ pc = "done"
    /\ trace = StageOrder
    /\ fits = 1
    /\ scenario # None

====
